---- MODULE Spec2Model ----
(***************************************************************************)
(* Model of the trie-based HTTP router of router.go.                       *)
(*                                                                         *)
(* A Go string is a sequence of one-character strings, so that             *)
(* strings.Split and strings.ToLower are computed, not assumed.  A trie    *)
(* node (a subrouter) is named by the sequence of child keys that leads to  *)
(* it from its method root; the per-method trie is a function from those   *)
(* node paths to the three handler slots, and sr.children[k] exists        *)
(* exactly when Append(sr, k) is in the trie's domain.                     *)
(***************************************************************************)
EXTENDS Naturals, Sequences, FiniteSets, TLC

VARIABLES
    children,   \* Router.children: lower-cased method -> trie
    last,       \* the most recent call on the Router and what it was seen to do
    nregs,      \* number of registration calls made so far
    nreqs,      \* number of requests served so far
    matcher     \* the requests being served concurrently: each one's locals

vars == <<children, last, nregs, nreqs, matcher>>

---------------------------------------------------------------------------
(* Bounds of the model *)

MaxRegs == 2
MaxReqs == 1
NumMatchers == 2
MaxUrlLen == 3
MaxSegLen == 1

---------------------------------------------------------------------------
(* Values *)

Nil == "nil"
nullRoute == "nullRoute"
nullErrorHandler == "nullErrorHandler"

Routes == {"R1", "R2"}
ErrorHandlers == {"E1", "E2"}
Errors == {"error"}

GET == <<"G", "E", "T">>
get == <<"g", "e", "t">>
PUT == <<"P", "U", "T">>
Methods == {GET, get, PUT}

Slash == "/"
Star == <<"*">>
RegChars == {"/", "a", "*"}
ReqChars == {"/", "a", "b", "*"}

---------------------------------------------------------------------------
(* strings *)

Uppers == <<"G", "E", "T", "P", "U">>
Lowers == <<"g", "e", "t", "p", "u">>

LowerChar(c) ==
    IF \E i \in DOMAIN Uppers : Uppers[i] = c
    THEN Lowers[CHOOSE i \in DOMAIN Uppers : Uppers[i] = c]
    ELSE c

ToLower(s) == [i \in DOMAIN s |-> LowerChar(s[i])]

RECURSIVE SplitFrom(_, _, _)
SplitFrom(s, i, cur) ==
    IF i > Len(s) THEN <<cur>>
    ELSE IF s[i] = Slash THEN <<cur>> \o SplitFrom(s, i + 1, <<>>)
    ELSE SplitFrom(s, i + 1, Append(cur, s[i]))

\* variant: the empty string has no segment
SplitNoneForEmpty(s) == IF s = <<>> THEN <<>> ELSE SplitFrom(s, 1, <<>>)

Split(s) == SplitFrom(s, 1, <<>>)

StringsUpTo(chars, n) == UNION {[1..k -> chars] : k \in 0..n}

UrlsOver(chars) ==
    {u \in StringsUpTo(chars, MaxUrlLen) :
        \A i \in DOMAIN Split(u) : Len(Split(u)[i]) <= MaxSegLen}

RegUrls == UrlsOver(RegChars)
ReqUrls == UrlsOver(ReqChars)

---------------------------------------------------------------------------
(* the trie *)

newSubrouter == [route |-> Nil, defaultRoute |-> Nil, errorHandler |-> Nil]

NewRouter == << >>

RECURSIVE insertLoop(_, _, _, _)
insertLoop(trie, sr, pathParts, i) ==
    IF i > Len(pathParts) THEN [trie |-> trie, sr |-> sr]
    ELSE IF pathParts[i] = <<>> THEN insertLoop(trie, sr, pathParts, i + 1)
    ELSE LET tmp == Append(sr, pathParts[i])
         IN  insertLoop(IF tmp \in DOMAIN trie THEN trie
                        ELSE trie @@ (tmp :> newSubrouter),
                        tmp, pathParts, i + 1)

\* variant: the root of the method is made anew by every registration
insertSubrouterFreshRoot(r, method, url) ==
    LET pathParts == Split(url)
        m == ToLower(method)
        r1 == (m :> (<<>> :> newSubrouter)) @@ r
        ins == insertLoop(r1[m], <<>>, pathParts, 1)
    IN  [r |-> [r1 EXCEPT ![m] = ins.trie], m |-> m, sr |-> ins.sr]

\* variant: every method shares one trie
insertSubrouterOneTrie(r, method, url) ==
    LET pathParts == Split(url)
        m == get
        r1 == IF m \in DOMAIN r THEN r ELSE r @@ (m :> (<<>> :> newSubrouter))
        ins == insertLoop(r1[m], <<>>, pathParts, 1)
    IN  [r |-> [r1 EXCEPT ![m] = ins.trie], m |-> m, sr |-> ins.sr]

\* variant: the method is used as the key without lower-casing it
insertSubrouterCaseSensitive(r, method, url) ==
    LET pathParts == Split(url)
        m == method
        r1 == IF m \in DOMAIN r THEN r ELSE r @@ (m :> (<<>> :> newSubrouter))
        ins == insertLoop(r1[m], <<>>, pathParts, 1)
    IN  [r |-> [r1 EXCEPT ![m] = ins.trie], m |-> m, sr |-> ins.sr]

insertSubrouter(r, method, url) ==
    LET pathParts == Split(url)
        m == ToLower(method)
        r1 == IF m \in DOMAIN r THEN r ELSE r @@ (m :> (<<>> :> newSubrouter))
        ins == insertLoop(r1[m], <<>>, pathParts, 1)
    IN  [r |-> [r1 EXCEPT ![m] = ins.trie], m |-> m, sr |-> ins.sr]

---------------------------------------------------------------------------
(* findRoute *)

\* variant: a default or error handler, once inherited, is kept
InheritFirstWins(trie, st) ==
    [st EXCEPT
        !.rt = IF trie[st.sr].defaultRoute # Nil /\ @ = nullRoute
               THEN trie[st.sr].defaultRoute ELSE @,
        !.erh = IF trie[st.sr].errorHandler # Nil /\ @ = nullErrorHandler
                THEN trie[st.sr].errorHandler ELSE @]

\* variant: only the default route is inherited
InheritDefaultOnly(trie, st) ==
    [st EXCEPT
        !.rt = IF trie[st.sr].defaultRoute # Nil
               THEN trie[st.sr].defaultRoute ELSE @]

Inherit(trie, st) ==
    [st EXCEPT
        !.rt = IF trie[st.sr].defaultRoute # Nil
               THEN trie[st.sr].defaultRoute ELSE @,
        !.erh = IF trie[st.sr].errorHandler # Nil
                THEN trie[st.sr].errorHandler ELSE @]

\* variant: the wildcard child is looked up before the literal child
DescendWildcardFirst(trie, st, pathPart) ==
    IF Append(st.sr, Star) \in DOMAIN trie
    THEN [st EXCEPT !.sr = Append(st.sr, Star),
                    !.args = Append(st.args, pathPart)]
    ELSE IF Append(st.sr, pathPart) \in DOMAIN trie
    THEN [st EXCEPT !.sr = Append(st.sr, pathPart)]
    ELSE [st EXCEPT !.returned = TRUE]

\* variant: a captured value is put in front of args
DescendPrependsArg(trie, st, pathPart) ==
    IF Append(st.sr, pathPart) \in DOMAIN trie
    THEN [st EXCEPT !.sr = Append(st.sr, pathPart)]
    ELSE IF Append(st.sr, Star) \in DOMAIN trie
    THEN [st EXCEPT !.sr = Append(st.sr, Star),
                    !.args = <<pathPart>> \o st.args]
    ELSE [st EXCEPT !.returned = TRUE]

\* variant: a segment without a child is passed over
DescendSkipsUnmatched(trie, st, pathPart) ==
    IF Append(st.sr, pathPart) \in DOMAIN trie
    THEN [st EXCEPT !.sr = Append(st.sr, pathPart)]
    ELSE IF Append(st.sr, Star) \in DOMAIN trie
    THEN [st EXCEPT !.sr = Append(st.sr, Star),
                    !.args = Append(st.args, pathPart)]
    ELSE st

Descend(trie, st, pathPart) ==
    IF Append(st.sr, pathPart) \in DOMAIN trie
    THEN [st EXCEPT !.sr = Append(st.sr, pathPart)]
    ELSE IF Append(st.sr, Star) \in DOMAIN trie
    THEN [st EXCEPT !.sr = Append(st.sr, Star),
                    !.args = Append(st.args, pathPart)]
    ELSE [st EXCEPT !.returned = TRUE]

\* variant: the empty segment is skipped at the beginning of the loop body
LoopBodySkipsEmptyFirst(trie, st, pathPart) ==
    IF pathPart = <<>> THEN st ELSE Descend(trie, Inherit(trie, st), pathPart)

\* variant: an empty segment is looked up like any other
LoopBodyNoSkip(trie, st, pathPart) ==
    Descend(trie, Inherit(trie, st), pathPart)

LoopBody(trie, st, pathPart) ==
    LET st1 == Inherit(trie, st)
    IN  IF pathPart = <<>> THEN st1 ELSE Descend(trie, st1, pathPart)

RECURSIVE findRouteLoop(_, _, _, _)
findRouteLoop(trie, st, pathParts, i) ==
    IF st.returned \/ i > Len(pathParts) THEN st
    ELSE findRouteLoop(trie, LoopBody(trie, st, pathParts[i]), pathParts, i + 1)

Seed(trie) ==
    Inherit(trie, [sr |-> <<>>, rt |-> nullRoute, erh |-> nullErrorHandler,
                   args |-> <<>>, returned |-> FALSE])

\* variant: the route of the node the walk stopped at is applied as well
FinalAfterStop(trie, st) ==
    IF trie[st.sr].route # Nil
    THEN [st EXCEPT !.rt = trie[st.sr].route]
    ELSE st

\* variant: at a node without a route, the route of the wildcard sibling of
\* the node is taken
FinalTriesWildcardSibling(trie, st) ==
    LET sibling == Append(SubSeq(st.sr, 1, Len(st.sr) - 1), Star)
    IN  IF ~st.returned /\ trie[st.sr].route # Nil
        THEN [st EXCEPT !.rt = trie[st.sr].route]
        ELSE IF /\ ~st.returned
                /\ st.sr # <<>>
                /\ sibling \in DOMAIN trie
                /\ trie[sibling].route # Nil
        THEN [st EXCEPT !.rt = trie[sibling].route]
        ELSE st

Final(trie, st) ==
    IF ~st.returned /\ trie[st.sr].route # Nil
    THEN [st EXCEPT !.rt = trie[st.sr].route]
    ELSE st

\* variant: a method without a trie is served from some other method's trie
findRouteFallback(r, method, pathParts) ==
    LET m == IF ToLower(method) \in DOMAIN r \/ DOMAIN r = {}
             THEN ToLower(method)
             ELSE CHOOSE k \in DOMAIN r : TRUE
    IN  IF m \notin DOMAIN r
        THEN [rt |-> nullRoute, erh |-> nullErrorHandler, args |-> <<>>]
        ELSE LET st == Final(r[m], findRouteLoop(r[m], Seed(r[m]), pathParts, 1))
             IN  [rt |-> st.rt, erh |-> st.erh, args |-> st.args]

\* variant: the method is looked up as it was given
findRouteCaseSensitive(r, method, pathParts) ==
    LET m == method
    IN  IF m \notin DOMAIN r
        THEN [rt |-> nullRoute, erh |-> nullErrorHandler, args |-> <<>>]
        ELSE LET st == Final(r[m], findRouteLoop(r[m], Seed(r[m]), pathParts, 1))
             IN  [rt |-> st.rt, erh |-> st.erh, args |-> st.args]

findRoute(r, method, pathParts) ==
    LET m == ToLower(method)
    IN  IF m \notin DOMAIN r
        THEN [rt |-> nullRoute, erh |-> nullErrorHandler, args |-> <<>>]
        ELSE LET st == Final(r[m], findRouteLoop(r[m], Seed(r[m]), pathParts, 1))
             IN  [rt |-> st.rt, erh |-> st.erh, args |-> st.args]

---------------------------------------------------------------------------
(* handlers and dispatch *)

RouteReturns(rt) == IF rt = nullRoute THEN {Nil} ELSE {Nil} \cup Errors

\* variant: the error handler is invoked whatever the route returned
DispatchAlways(rt, erh, args, er) ==
    <<[fn |-> "Route", h |-> rt, args |-> args, er |-> Nil],
      [fn |-> "ErrorHandler", h |-> erh, args |-> <<>>, er |-> er]>>

Dispatch(rt, erh, args, er) ==
    <<[fn |-> "Route", h |-> rt, args |-> args, er |-> Nil]>>
    \o (IF er # Nil
        THEN <<[fn |-> "ErrorHandler", h |-> erh, args |-> <<>>, er |-> er]>>
        ELSE <<>>)

---------------------------------------------------------------------------
(* operations: each gives the Router after the call and, for a             *)
(* registration, the panic it raised (Nil when it returned normally)       *)

PanicRoute == "router: already exists a route for"
PanicDefault == "router: already exists a default route for"
PanicErrorHandler == "router: already exists an error handler for"

\* variant: Handle looks at the default route slot for an earlier binding
HandleChecksDefault(r, method, url, rt) ==
    LET ins == insertSubrouter(r, method, url)
    IN  IF ins.r[ins.m][ins.sr].defaultRoute # Nil
        THEN [r |-> ins.r, panic |-> PanicRoute]
        ELSE [r |-> [ins.r EXCEPT ![ins.m][ins.sr].route = rt], panic |-> Nil]

\* variant: Handle looks for an earlier route at the root of the method
HandleChecksRoot(r, method, url, rt) ==
    LET ins == insertSubrouter(r, method, url)
    IN  IF ins.r[ins.m][<<>>].route # Nil
        THEN [r |-> ins.r, panic |-> PanicRoute]
        ELSE [r |-> [ins.r EXCEPT ![ins.m][ins.sr].route = rt], panic |-> Nil]

Handle(r, method, url, rt) ==
    LET ins == insertSubrouter(r, method, url)
    IN  IF ins.r[ins.m][ins.sr].route # Nil
        THEN [r |-> ins.r, panic |-> PanicRoute]
        ELSE [r |-> [ins.r EXCEPT ![ins.m][ins.sr].route = rt], panic |-> Nil]

SetDefault(r, method, url, rt) ==
    LET ins == insertSubrouter(r, method, url)
    IN  IF ins.r[ins.m][ins.sr].defaultRoute # Nil
        THEN [r |-> ins.r, panic |-> PanicDefault]
        ELSE [r |-> [ins.r EXCEPT ![ins.m][ins.sr].defaultRoute = rt],
              panic |-> Nil]

SetErrorHandler(r, method, url, rt) ==
    LET ins == insertSubrouter(r, method, url)
    IN  IF ins.r[ins.m][ins.sr].errorHandler # Nil
        THEN [r |-> ins.r, panic |-> PanicErrorHandler]
        ELSE [r |-> [ins.r EXCEPT ![ins.m][ins.sr].errorHandler = rt],
              panic |-> Nil]

ServeHTTP(r, method, url, er) ==
    LET pathParts == Split(url)
        res == findRoute(r, method, pathParts)
    IN  [op |-> "ServeHTTP", method |-> method, url |-> url,
         rt |-> res.rt, erh |-> res.erh, args |-> res.args, er |-> er,
         calls |-> Dispatch(res.rt, res.erh, res.args, er)]

---------------------------------------------------------------------------
(* the program: NewRouter, a setup of at most MaxRegs registration calls   *)
(* and then requests, as in the package example and the tests              *)

Matchers == 1..NumMatchers

Idle == [pc |-> "idle"]

Init ==
    /\ children = NewRouter
    /\ last = [op |-> "NewRouter"]
    /\ nregs = 0
    /\ nreqs = 0
    /\ matcher = [id \in Matchers |-> Idle]

Setup == nreqs = 0 /\ nregs < MaxRegs

Registration(op, out) ==
    /\ children' = out.r
    /\ last' = [op |-> op, panic |-> out.panic]
    /\ nregs' = nregs + 1
    /\ UNCHANGED <<nreqs, matcher>>

CallHandle ==
    /\ Setup
    /\ \E method \in Methods, url \in RegUrls, rt \in Routes :
          Registration("Handle", Handle(children, method, url, rt))

CallSetDefault ==
    /\ Setup
    /\ \E method \in Methods, url \in RegUrls, rt \in Routes :
          Registration("SetDefault", SetDefault(children, method, url, rt))

CallSetErrorHandler ==
    /\ Setup
    /\ \E method \in Methods, url \in RegUrls, rt \in ErrorHandlers :
          Registration("SetErrorHandler",
                       SetErrorHandler(children, method, url, rt))

CallServeHTTP ==
    /\ nreqs < MaxReqs
    /\ nreqs' = nreqs + 1
    /\ \E method \in Methods, url \in ReqUrls :
          \E er \in RouteReturns(findRoute(children, method, Split(url)).rt) :
              last' = ServeHTTP(children, method, url, er)
    /\ UNCHANGED <<children, nregs, matcher>>

Next == CallHandle \/ CallSetDefault \/ CallSetErrorHandler \/ CallServeHTTP

Spec == Init /\ [][Next]_vars

---------------------------------------------------------------------------
(* concurrent requests over a trie that the set-up has finished: every     *)
(* ServeHTTP runs in its own goroutine, findRoute advancing by one lookup  *)
(* of the shared trie at a time                                            *)

foo == <<"f", "o", "o">>
bar == <<"b", "a", "r">>
baz == <<"b", "a", "z">>

RECURSIVE Path(_)
Path(segs) ==
    IF segs = <<>> THEN <<>> ELSE <<Slash>> \o Head(segs) \o Path(Tail(segs))

Root == <<Slash>>

Call(op, method, url, h) == [op |-> op, method |-> method, url |-> url, h |-> h]

SetupSimpleRoutes ==
    << Call("Handle", GET, Root, "route1"),
       Call("Handle", GET, Path(<<foo>>), "route2"),
       Call("Handle", GET, Path(<<Star>>), "route3") >>

SetupDefaultRoutes ==
    << Call("SetDefault", GET, Root, "route1"),
       Call("SetDefault", GET, Path(<<foo>>), "route2"),
       Call("Handle", GET, Path(<<bar>>), "route3"),
       Call("Handle", GET, Path(<<foo, bar>>), "route4") >>

SetupArgRoutes ==
    << Call("Handle", GET, Root, "route1"),
       Call("Handle", GET, Path(<<Star>>), "route2"),
       Call("Handle", GET, Path(<<Star, Star>>), "route3"),
       Call("Handle", GET, Path(<<foo, Star>>), "route4"),
       Call("Handle", GET, Path(<<Star, foo>>), "route5"),
       Call("SetDefault", GET, Root, "route6") >>

Setups == {SetupSimpleRoutes, SetupDefaultRoutes, SetupArgRoutes}

Register(r, call) ==
    CASE call.op = "Handle" -> Handle(r, call.method, call.url, call.h).r
      [] call.op = "SetDefault" -> SetDefault(r, call.method, call.url, call.h).r
      [] call.op = "SetErrorHandler" ->
             SetErrorHandler(r, call.method, call.url, call.h).r

RECURSIVE RunSetup(_, _, _)
RunSetup(r, calls, i) ==
    IF i > Len(calls) THEN r ELSE RunSetup(Register(r, calls[i]), calls, i + 1)

TestUrls ==
    { Root, Path(<<foo>>), Path(<<foo>>) \o Root, Path(<<bar>>), Path(<<baz>>),
      Path(<<foo, bar>>), Path(<<foo, baz>>), Path(<<bar, foo>>),
      Path(<<bar, bar>>) }

TestMethods == {GET, PUT}

InitConc ==
    /\ \E calls \in Setups :
          /\ children = RunSetup(NewRouter, calls, 1)
          /\ nregs = Len(calls)
    /\ last = [op |-> "NewRouter"]
    /\ nreqs = 0
    /\ matcher = [id \in Matchers |-> Idle]

\* variant: a method without a trie is given an empty one, as a registration
\* does
LookupOrCreate(r, m) ==
    [r |-> IF m \in DOMAIN r THEN r ELSE r @@ (m :> (<<>> :> newSubrouter)),
     ok |-> TRUE]

\* sr, ok := r.children[method]: the Router after the lookup, and ok
Lookup(r, m) == [r |-> r, ok |-> m \in DOMAIN r]

\* ServeHTTP splits the path and findRoute runs up to its loop
Begin(id, method, url) ==
    LET m == ToLower(method)
        got == Lookup(children, m)
    IN  /\ matcher[id].pc = "idle"
        /\ children' = got.r
        /\ matcher' = [matcher EXCEPT ![id] =
              IF ~got.ok
              THEN [pc |-> "done", method |-> method, pathParts |-> Split(url),
                    i |-> 1,
                    st |-> [sr |-> <<>>, rt |-> nullRoute,
                            erh |-> nullErrorHandler, args |-> <<>>,
                            returned |-> TRUE]]
              ELSE [pc |-> "loop", method |-> method, pathParts |-> Split(url),
                    i |-> 1, st |-> Seed(got.r[m])]]
        /\ UNCHANGED <<last, nregs, nreqs>>

\* one iteration of findRoute's loop
Iterate(id) ==
    LET self == matcher[id]
        trie == children[ToLower(self.method)]
        st == LoopBody(trie, self.st, self.pathParts[self.i])
    IN  /\ self.pc = "loop"
        /\ self.i <= Len(self.pathParts)
        /\ matcher' = [matcher EXCEPT ![id] =
              [self EXCEPT !.st = st,
                           !.i = self.i + 1,
                           !.pc = IF st.returned THEN "done" ELSE "loop"]]
        /\ UNCHANGED <<children, last, nregs, nreqs>>

\* the loop is over: the route of the node reached, and findRoute returns
Finish(id) ==
    LET self == matcher[id]
        trie == children[ToLower(self.method)]
    IN  /\ self.pc = "loop"
        /\ self.i > Len(self.pathParts)
        /\ matcher' = [matcher EXCEPT ![id] =
              [self EXCEPT !.st = Final(trie, self.st), !.pc = "done"]]
        /\ UNCHANGED <<children, last, nregs, nreqs>>

\* ServeHTTP invokes what findRoute returned (the handlers have no access
\* to the Router) and returns
Return(id) ==
    /\ matcher[id].pc = "done"
    /\ matcher' = [matcher EXCEPT ![id] = Idle]
    /\ UNCHANGED <<children, last, nregs, nreqs>>

DoBegin == \E id \in Matchers, method \in TestMethods, url \in TestUrls :
               Begin(id, method, url)

DoIterate == \E id \in Matchers : Iterate(id)

DoFinish == \E id \in Matchers : Finish(id)

DoReturn == \E id \in Matchers : Return(id)

NextConc == DoBegin \/ DoIterate \/ DoFinish \/ DoReturn

SpecConc == InitConc /\ [][NextConc]_vars

---------------------------------------------------------------------------
(* vocabulary of the properties *)

Served == last.op = "ServeHTTP"

NonEmpty(p) == p # <<>>

\* the node a URL names: its non-empty segments, in order
Segments(url) == SelectSeq(Split(url), NonEmpty)

TrailingSlash(url) == url # <<>> /\ url[Len(url)] = Slash

\* the request just served was made under a method that has a trie
ServedKnown == Served /\ ToLower(last.method) \in DOMAIN children

ServedTrie == children[ToLower(last.method)]

\* the nodes a request walks through, from node on: the literal child when
\* there is one, else the wildcard child, else the walk stops
RECURSIVE WalkFrom(_, _, _, _)
WalkFrom(trie, node, segs, i) ==
    IF i > Len(segs) THEN <<node>>
    ELSE IF Append(node, segs[i]) \in DOMAIN trie
    THEN <<node>> \o WalkFrom(trie, Append(node, segs[i]), segs, i + 1)
    ELSE IF Append(node, Star) \in DOMAIN trie
    THEN <<node>> \o WalkFrom(trie, Append(node, Star), segs, i + 1)
    ELSE <<node>>

Walk(trie, url) == WalkFrom(trie, <<>>, Segments(url), 1)

WalkStops(trie, url) == Len(Walk(trie, url)) <= Len(Segments(url))

\* the default route / error handler of the nearest of the first k+1 nodes
\* on the way from the root to node that has one, the built-in one if none has
RECURSIVE InheritedDefault(_, _, _)
InheritedDefault(trie, node, k) ==
    IF trie[SubSeq(node, 1, k)].defaultRoute # Nil
    THEN trie[SubSeq(node, 1, k)].defaultRoute
    ELSE IF k = 0 THEN nullRoute ELSE InheritedDefault(trie, node, k - 1)

RECURSIVE InheritedErrorHandler(_, _, _)
InheritedErrorHandler(trie, node, k) ==
    IF trie[SubSeq(node, 1, k)].errorHandler # Nil
    THEN trie[SubSeq(node, 1, k)].errorHandler
    ELSE IF k = 0 THEN nullErrorHandler
    ELSE InheritedErrorHandler(trie, node, k - 1)

\* segs puts a value at every "*" of node and repeats its other keys
Instance(node, segs) ==
    /\ Len(segs) = Len(node)
    /\ \A i \in 1..Len(node) : node[i] # Star => segs[i] = node[i]

\* the values put at the "*" positions are concrete segments, not "*"
Concrete(node, segs) ==
    \A i \in 1..Len(node) : node[i] = Star => segs[i] # Star

HasStar(node) == \E i \in 1..Len(node) : node[i] = Star

RECURSIVE StarValuesFrom(_, _, _)
StarValuesFrom(node, segs, i) ==
    IF i > Len(node) THEN <<>>
    ELSE (IF node[i] = Star THEN <<segs[i]>> ELSE <<>>)
         \o StarValuesFrom(node, segs, i + 1)

StarValues(node, segs) == StarValuesFrom(node, segs, 1)

\* no value put at a "*" of node is the key of a child of the node before it
Unshadowed(trie, node, segs) ==
    \A i \in 1..Len(node) :
        node[i] = Star => Append(SubSeq(node, 1, i - 1), segs[i]) \notin DOMAIN trie

ErrorHandlerCalls == {i \in DOMAIN last.calls : last.calls[i].fn = "ErrorHandler"}
RouteCalls == {i \in DOMAIN last.calls : last.calls[i].fn = "Route"}

---------------------------------------------------------------------------
(* C1: a route registered at (method, path) is what a request for exactly  *)
(* that path without a trailing slash under that method resolves to, with  *)
(* no args, whatever else has been registered since.                       *)
C1_ExactRoute ==
    (/\ ServedKnown
     /\ ~TrailingSlash(last.url)
     /\ Segments(last.url) \in DOMAIN ServedTrie
     /\ ServedTrie[Segments(last.url)].route # Nil)
    => /\ last.rt = ServedTrie[Segments(last.url)].route
       /\ last.args = <<>>

\* a request for a registered literal path that has a wildcard sibling
C1_Witness ==
    /\ ServedKnown
    /\ ~TrailingSlash(last.url)
    /\ Segments(last.url) = << <<"a">> >>
    /\ <<Star>> \in DOMAIN ServedTrie
    /\ << <<"a">> >> \in DOMAIN ServedTrie
    /\ ServedTrie[<< <<"a">> >>].route # Nil
    /\ ServedTrie[<<Star>>].route # Nil
    /\ last.rt = ServedTrie[<< <<"a">> >>].route

(* C2 as stated: a route registered at a path with "*" segments is what    *)
(* every request that puts non-empty values at the "*" positions resolves  *)
(* to, with those values as args, whatever else is in the trie.            *)
C2_Original ==
    ServedKnown =>
        \A node \in DOMAIN ServedTrie :
            (/\ HasStar(node)
             /\ ServedTrie[node].route # Nil
             /\ Instance(node, Segments(last.url))
             /\ Concrete(node, Segments(last.url)))
            => /\ last.rt = ServedTrie[node].route
               /\ last.args = StarValues(node, Segments(last.url))

(* C2, amended: the same, for the values that are not the key of a child   *)
(* of the node they are matched at (a literal child, or the "*" child      *)
(* itself when the value is "*", is found first and captures nothing).     *)
C2_WildcardArgs ==
    ServedKnown =>
        \A node \in DOMAIN ServedTrie :
            (/\ HasStar(node)
             /\ ServedTrie[node].route # Nil
             /\ Instance(node, Segments(last.url))
             /\ Unshadowed(ServedTrie, node, Segments(last.url)))
            => /\ last.rt = ServedTrie[node].route
               /\ last.args = StarValues(node, Segments(last.url))

\* a request that puts two different values at the two wildcards of a route
C2_Witness ==
    /\ ServedKnown
    /\ <<Star, Star>> \in DOMAIN ServedTrie
    /\ ServedTrie[<<Star, Star>>].route # Nil
    /\ Segments(last.url) = << <<"b">>, <<"a">> >>
    /\ Unshadowed(ServedTrie, <<Star, Star>>, Segments(last.url))
    /\ last.args = << <<"b">>, <<"a">> >>
    /\ last.rt = ServedTrie[<<Star, Star>>].route

\* the walk of the request just served, and how far past a node it goes
ServedWalk == Walk(ServedTrie, last.url)

ServedEnd == ServedWalk[Len(ServedWalk)]

IsPrefix(p, q) == Len(p) <= Len(q) /\ SubSeq(q, 1, Len(p)) = p

\* the request's walk goes through node
OnWalk(node) ==
    Len(ServedWalk) > Len(node) /\ ServedWalk[Len(node) + 1] = node

\* the request goes on after node: by a further segment or by a trailing
\* slash (every request goes through the root)
Beyond(node, url) ==
    \/ node = <<>>
    \/ Len(Segments(url)) > Len(node)
    \/ TrailingSlash(url)

\* no route is matched by the request, and no default is set below node on
\* its walk
NothingBelow(node) ==
    /\ WalkStops(ServedTrie, last.url) \/ ServedTrie[ServedEnd].route = Nil
    /\ \A j \in (Len(node) + 2)..Len(ServedWalk) :
           ServedTrie[ServedWalk[j]].defaultRoute = Nil

(* C3 as stated: a default route set at a (literal) prefix P is what every *)
(* request whose path starts with P resolves to when no route matches it   *)
(* and no default is set below P on its walk (so a default at a deeper Q   *)
(* wins under Q).                                                          *)
C3_Original ==
    ServedKnown =>
        \A node \in DOMAIN ServedTrie :
            (/\ ServedTrie[node].defaultRoute # Nil
             /\ ~HasStar(node)
             /\ IsPrefix(node, Segments(last.url))
             /\ NothingBelow(node))
            => last.rt = ServedTrie[node].defaultRoute

(* C3, amended: a default route set at P is what every request whose walk  *)
(* leads to P and goes on after it, by a further segment or by a trailing  *)
(* slash, resolves to when no route matches it and no default is set below *)
(* P on its walk; a request for P itself without a trailing slash gets the *)
(* default inherited from above P.                                         *)
C3_DefaultUnderPrefix ==
    ServedKnown =>
        \A node \in DOMAIN ServedTrie :
            (/\ ServedTrie[node].defaultRoute # Nil
             /\ OnWalk(node)
             /\ Beyond(node, last.url)
             /\ NothingBelow(node))
            => last.rt = ServedTrie[node].defaultRoute

\* defaults at the root and at /a, and a request under /a that gets /a's
C3_Witness ==
    /\ ServedKnown
    /\ << <<"a">> >> \in DOMAIN ServedTrie
    /\ ServedTrie[<<>>].defaultRoute # Nil
    /\ ServedTrie[<< <<"a">> >>].defaultRoute # Nil
    /\ ServedTrie[<< <<"a">> >>].defaultRoute # ServedTrie[<<>>].defaultRoute
    /\ Segments(last.url) = << <<"a">>, <<"b">> >>
    /\ last.rt = ServedTrie[<< <<"a">> >>].defaultRoute

SlotBound(method, url, slot) ==
    /\ ToLower(method) \in DOMAIN children
    /\ Segments(url) \in DOMAIN children[ToLower(method)]
    /\ children[ToLower(method)][Segments(url)][slot] # Nil

(* C5: during the set-up, a call of Handle, SetDefault or SetErrorHandler  *)
(* panics exactly when the slot it sets is already bound at the node named *)
(* by the lower-cased method and the non-empty segments of the path; a     *)
(* first registration for a (node, slot) succeeds.                         *)
C5_DuplicatePanics ==
    nreqs = 0 =>
        \A method \in Methods, url \in RegUrls :
            /\ \A rt \in Routes :
                  /\ Handle(children, method, url, rt).panic
                        = IF SlotBound(method, url, "route")
                          THEN PanicRoute ELSE Nil
                  /\ SetDefault(children, method, url, rt).panic
                        = IF SlotBound(method, url, "defaultRoute")
                          THEN PanicDefault ELSE Nil
            /\ \A rt \in ErrorHandlers :
                  SetErrorHandler(children, method, url, rt).panic
                      = IF SlotBound(method, url, "errorHandler")
                        THEN PanicErrorHandler ELSE Nil

\* a second Handle for the node /a of the get trie has panicked
C5_Witness ==
    /\ last.op = "Handle"
    /\ last.panic = PanicRoute
    /\ nregs = 2
    /\ SlotBound(GET, <<"/", "a">>, "route")
    /\ Handle(children, get, <<"a", "/">>, "R2").panic = PanicRoute
    /\ Handle(children, GET, <<"/", "/", "a">>, "R2").panic = PanicRoute

(* C6: ServeHTTP invokes the resolved route exactly once and first; when   *)
(* the route returns an error it then invokes, once, the error handler the *)
(* same findRoute call resolved, with that error, and no other; when the   *)
(* route returns nil it invokes no error handler.                          *)
C6_DispatchOnce ==
    Served =>
        LET res == findRoute(children, last.method, Split(last.url))
        IN  /\ RouteCalls = {1}
            /\ last.calls[1].h = res.rt
            /\ last.calls[1].args = res.args
            /\ last.er = Nil => ErrorHandlerCalls = {}
            /\ last.er # Nil =>
                  /\ ErrorHandlerCalls = {2}
                  /\ last.calls[2].h = res.erh
                  /\ last.calls[2].er = last.er
            /\ DOMAIN last.calls = RouteCalls \cup ErrorHandlerCalls

\* a registered route returned an error, and the registered error handler
\* resolved with it ran after it
C6_Witness ==
    /\ Served
    /\ last.rt \in Routes
    /\ last.erh \in ErrorHandlers
    /\ last.er # Nil
    /\ Len(last.calls) = 2
    /\ last.calls[2].h = last.erh

\* the default route and error handler inherited where the walk ended
StoppedDefault == InheritedDefault(ServedTrie, ServedEnd, Len(ServedEnd))

(* C7 as stated: a request whose walk stops at a segment with neither a    *)
(* literal nor a wildcard child resolves to the nearest inherited default  *)
(* route (the built-in one if none), and its dispatch invokes no error     *)
(* handler.                                                                *)
C7_Original ==
    (ServedKnown /\ WalkStops(ServedTrie, last.url))
    => /\ last.rt = StoppedDefault
       /\ ErrorHandlerCalls = {}

(* C7, amended: such a request resolves to the nearest inherited default   *)
(* route (the built-in one if none); its dispatch invokes an error handler *)
(* only if that default route returns an error, which the built-in one     *)
(* never does.                                                             *)
C7_UnmatchedIsDefault ==
    (ServedKnown /\ WalkStops(ServedTrie, last.url))
    => /\ last.rt = StoppedDefault
       /\ ErrorHandlerCalls # {} => (last.er # Nil /\ last.rt # nullRoute)
       /\ last.rt = nullRoute => ErrorHandlerCalls = {}

\* the walk stopped below a node with a route, and the default was served
C7_Witness ==
    /\ ServedKnown
    /\ WalkStops(ServedTrie, last.url)
    /\ ServedTrie[ServedEnd].route # Nil
    /\ ServedTrie[<<>>].defaultRoute # Nil
    /\ last.rt = ServedTrie[<<>>].defaultRoute
    /\ last.er = Nil
    /\ ErrorHandlerCalls = {}

(* C8: a request under a method with no trie (after lower-casing) resolves *)
(* to the built-in not-found route, the built-in error handler and no      *)
(* args, whatever the path and whatever the other methods' tries hold.     *)
C8_UnknownMethod ==
    (Served /\ ToLower(last.method) \notin DOMAIN children)
    => /\ last.rt = nullRoute
       /\ last.erh = nullErrorHandler
       /\ last.args = <<>>

\* another method has a default route and a wildcard child
C8_Witness ==
    /\ Served
    /\ ToLower(last.method) \notin DOMAIN children
    /\ Segments(last.url) = << <<"b">> >>
    /\ \E m \in DOMAIN children :
          /\ children[m][<<>>].defaultRoute # Nil
          /\ <<Star>> \in DOMAIN children[m]
    /\ last.rt = nullRoute

\* matcher id has just run a loop iteration over a non-empty segment
Stepped(id) ==
    /\ matcher[id].pc = "loop"
    /\ matcher'[id].pc # "idle"
    /\ matcher'[id].i = matcher[id].i + 1
    /\ matcher[id].pathParts[matcher[id].i] # <<>>

MatcherTrie(id) == children[ToLower(matcher[id].method)]

(* C9: at every step of a walk, when the node has a literal child for the  *)
(* segment the walk goes to that child and captures nothing; it goes to    *)
(* the wildcard child, capturing the segment, only when the node has no    *)
(* literal child for it.                                                   *)
C9_LiteralFirst ==
    [][\A id \in Matchers :
          Stepped(id) =>
              LET seg == matcher[id].pathParts[matcher[id].i]
                  sr == matcher[id].st.sr
                  literal == Append(sr, seg) \in DOMAIN MatcherTrie(id)
              IN  /\ literal =>
                         /\ matcher'[id].st.sr = Append(sr, seg)
                         /\ matcher'[id].st.args = matcher[id].st.args
                         /\ ~matcher'[id].st.returned
                  /\ matcher'[id].st.args # matcher[id].st.args =>
                         /\ ~literal
                         /\ matcher'[id].st.sr = Append(sr, Star)
                         /\ matcher'[id].st.args
                                = Append(matcher[id].st.args, seg)]_vars

\* /bar/foo over the trie of TestArgRoutes: bar went to the wildcard child,
\* then foo to the literal child, which has a wildcard sibling
C9_Witness ==
    \E id \in Matchers :
        /\ matcher[id].pc = "loop"
        /\ matcher[id].st.sr = <<Star, foo>>
        /\ matcher[id].st.args = <<bar>>
        /\ <<Star, Star>> \in DOMAIN MatcherTrie(id)

(* C10: no step of a match changes the trie, and whatever the other        *)
(* matches are doing, a match ends with the route, error handler and args  *)
(* that findRoute gives for its method and path on its own.                *)
C10_MatchReadsOnly ==
    [][/\ children' = children
       /\ \A id \in Matchers :
             matcher'[id].pc = "done" =>
                 LET res == findRoute(children, matcher'[id].method,
                                      matcher'[id].pathParts)
                 IN  /\ matcher'[id].st.rt = res.rt
                     /\ matcher'[id].st.erh = res.erh
                     /\ matcher'[id].st.args = res.args]_vars

\* two matches in their loops at once, one of them having captured a value
C10_Witness ==
    /\ matcher[1].pc = "loop"
    /\ matcher[2].pc = "done"
    /\ matcher[1].i > 1
    /\ matcher[2].st.args # <<>>
    /\ matcher[1].pathParts # matcher[2].pathParts

---------------------------------------------------------------------------
\* two characters are the same letter, two strings differ in letter case only
SameLetter(c, d) ==
    \/ c = d
    \/ \E i \in DOMAIN Uppers : {c, d} = {Uppers[i], Lowers[i]}

CaseVariants(s, t) ==
    Len(s) = Len(t) /\ \A i \in DOMAIN s : SameLetter(s[i], t[i])

\* what the request just served resolved to
ServedResult == [rt |-> last.rt, erh |-> last.erh, args |-> last.args]

(* C11: a request resolves to the same route, error handler and args under *)
(* every spelling of its method that differs in letter case only, and in   *)
(* the set-up a registration repeated for the same path and slot under     *)
(* another such spelling of the method is a duplicate.                     *)
C11_MethodCase ==
    /\ Served =>
          \A method \in Methods :
              CaseVariants(method, last.method) =>
                  findRoute(children, method, Split(last.url)) = ServedResult
    /\ nreqs = 0 =>
          \A m1 \in Methods, m2 \in Methods, url \in RegUrls :
              CaseVariants(m1, m2) =>
                  /\ Handle(Handle(children, m1, url, "R1").r,
                            m2, url, "R2").panic = PanicRoute
                  /\ SetDefault(SetDefault(children, m1, url, "R1").r,
                                m2, url, "R2").panic = PanicDefault
                  /\ SetErrorHandler(SetErrorHandler(children, m1, url, "E1").r,
                                     m2, url, "E2").panic = PanicErrorHandler

\* a request under GET was served a registered route, as it is under get
C11_Witness ==
    /\ Served
    /\ last.method = GET
    /\ last.rt \in Routes
    /\ last.args # <<>>
    /\ findRoute(children, get, Split(last.url)) = ServedResult

---------------------------------------------------------------------------
\* the three registration calls, by the slot they bind
Slots == {"Handle", "SetDefault", "SetErrorHandler"}

Bind(r, slot, method, url, h) ==
    IF slot = "Handle" THEN Handle(r, method, url, h)
    ELSE IF slot = "SetDefault" THEN SetDefault(r, method, url, h)
    ELSE SetErrorHandler(r, method, url, h)

HandlersOf(slot) == IF slot = "SetErrorHandler" THEN ErrorHandlers ELSE Routes

\* the outcome of every request and of every registration under a method
SameUnder(r1, r2, method) ==
    /\ \A url \in ReqUrls :
           findRoute(r1, method, Split(url)) = findRoute(r2, method, Split(url))
    /\ \A slot \in Slots, url \in RegUrls :
           Bind(r1, slot, method, url, "R1").panic
               = Bind(r2, slot, method, url, "R1").panic

(* C12: a registration under one method changes no request's result and   *)
(* no registration's outcome (success or duplicate panic) under any method *)
(* that is not a case variant of it.                                       *)
C12_MethodsIndependent ==
    Setup =>
        \A slot \in Slots, m1 \in Methods, url \in RegUrls :
            \A h \in HandlersOf(slot) :
                LET after == Bind(children, slot, m1, url, h).r
                IN  \A m2 \in Methods :
                        ~CaseVariants(m1, m2) =>
                            SameUnder(children, after, m2)

\* a route is bound under PUT, a registration under GET at the same path
\* succeeds and the request under PUT still gets the route
C12_Witness ==
    /\ Setup
    /\ DOMAIN children = {ToLower(PUT)}
    /\ \E url \in RegUrls :
           /\ findRoute(children, PUT, Split(url)).rt \in Routes
           /\ Handle(children, GET, url, "R2").panic = Nil
           /\ findRoute(Handle(children, GET, url, "R2").r, PUT, Split(url))
                  = findRoute(children, PUT, Split(url))
           /\ findRoute(Handle(children, GET, url, "R2").r, GET, Split(url)).rt
                  = "R2"

---------------------------------------------------------------------------
\* the three slots of the node (method, url) names, all Nil without a node
SlotsAt(r, method, url) ==
    IF ToLower(method) \in DOMAIN r
       /\ Segments(url) \in DOMAIN r[ToLower(method)]
    THEN r[ToLower(method)][Segments(url)]
    ELSE newSubrouter

FieldOf(slot) ==
    IF slot = "Handle" THEN "route"
    ELSE IF slot = "SetDefault" THEN "defaultRoute" ELSE "errorHandler"

HandlerFor(slot) == IF slot = "SetErrorHandler" THEN "E1" ELSE "R1"

\* the three registrations at one node, made in the order s1, s2, s3
BindThree(r, method, url, s1, s2, s3) ==
    LET b1 == Bind(r, s1, method, url, HandlerFor(s1))
        b2 == Bind(b1.r, s2, method, url, HandlerFor(s2))
        b3 == Bind(b2.r, s3, method, url, HandlerFor(s3))
    IN  [r |-> b3.r, panics |-> <<b1.panic, b2.panic, b3.panic>>]

(* C13: at every (method, path), a registration for one slot leaves the    *)
(* other two slots as they were and leaves the outcome of a registration   *)
(* for either of them as it was; while the set-up can go on, at a node     *)
(* with no slot bound the three registrations succeed in each of their six *)
(* orders and bind the three handlers.                                     *)
C13_SlotsIndependent ==
    nreqs = 0 =>
        \A method \in Methods, url \in RegUrls :
            /\ \A s1 \in Slots :
               \A s2 \in Slots \ {s1} :
                   LET b1 == Bind(children, s1, method, url, HandlerFor(s1))
                   IN  /\ SlotsAt(b1.r, method, url)[FieldOf(s2)]
                              = SlotsAt(children, method, url)[FieldOf(s2)]
                       /\ Bind(b1.r, s2, method, url, HandlerFor(s2)).panic
                              = Bind(children, s2, method, url,
                                     HandlerFor(s2)).panic
            /\ Setup /\ SlotsAt(children, method, url) = newSubrouter =>
                   \A s1 \in Slots :
                       \A s2 \in Slots \ {s1} :
                       \A s3 \in Slots \ {s1, s2} :
                           LET b == BindThree(children, method, url, s1, s2, s3)
                           IN  /\ b.panics = <<Nil, Nil, Nil>>
                               /\ SlotsAt(b.r, method, url)
                                      = [route |-> "R1", defaultRoute |-> "R1",
                                         errorHandler |-> "E1"]

\* two slots of one node are bound, a registration for the third succeeds
\* and one for either of the two is a duplicate
C13_Witness ==
    /\ nreqs = 0
    /\ last.op = "SetErrorHandler"
    /\ last.panic = Nil
    /\ \E method \in Methods, url \in RegUrls :
           /\ SlotsAt(children, method, url).defaultRoute \in Routes
           /\ SlotsAt(children, method, url).errorHandler \in ErrorHandlers
           /\ SlotsAt(children, method, url).route = Nil
           /\ Handle(children, method, url, "R1").panic = Nil
           /\ SetDefault(children, method, url, "R1").panic = PanicDefault

---------------------------------------------------------------------------
\* node has an error handler and no node strictly below it has one
LowestErrorHandler(trie, node) ==
    /\ trie[node].errorHandler # Nil
    /\ \A n \in DOMAIN trie :
           (IsPrefix(node, n) /\ n # node) => trie[n].errorHandler = Nil

\* the request just served resolved to the route of node or of a descendant
ServedRouteUnder(node) ==
    /\ ~WalkStops(ServedTrie, last.url)
    /\ IsPrefix(node, ServedEnd)
    /\ ServedTrie[ServedEnd].route # Nil
    /\ last.rt = ServedTrie[ServedEnd].route

(* C14 as stated: with an error handler registered at a node and none      *)
(* strictly below it, every request that resolves to a route registered at *)
(* the node or at a descendant of it resolves that error handler.          *)
C14_Original ==
    ServedKnown =>
        \A node \in DOMAIN ServedTrie :
            (/\ LowestErrorHandler(ServedTrie, node)
             /\ ServedRouteUnder(node))
            => last.erh = ServedTrie[node].errorHandler

(* C14, amended: the same for the requests that go on after the node, by a *)
(* further segment or a trailing slash (every request does at the root); a *)
(* request for the node itself without a trailing slash resolves the error *)
(* handler inherited from the nodes above it.                              *)
C14_ErrorHandlerBelow ==
    ServedKnown =>
        \A node \in DOMAIN ServedTrie :
            (/\ LowestErrorHandler(ServedTrie, node)
             /\ ServedRouteUnder(node))
            => last.erh = IF Beyond(node, last.url)
                          THEN ServedTrie[node].errorHandler
                          ELSE InheritedErrorHandler(ServedTrie, node,
                                                     Len(node) - 1)

\* a request resolved to a route below a node with an error handler
C14_Witness ==
    /\ ServedKnown
    /\ \E node \in DOMAIN ServedTrie :
           /\ node # <<>>
           /\ LowestErrorHandler(ServedTrie, node)
           /\ ServedRouteUnder(node)
           /\ ServedEnd # node
           /\ last.erh = ServedTrie[node].errorHandler

---------------------------------------------------------------------------
\* the segments a walk took a wildcard child for, in order
RECURSIVE WalkArgsFrom(_, _, _)
WalkArgsFrom(walk, segs, i) ==
    IF i >= Len(walk) THEN <<>>
    ELSE (IF walk[i + 1] = Append(walk[i], segs[i]) THEN <<>> ELSE <<segs[i]>>)
         \o WalkArgsFrom(walk, segs, i + 1)

WalkArgs(trie, url) == WalkArgsFrom(Walk(trie, url), Segments(url), 1)

\* url has the non-empty segments segs up to and including the one after
\* the node end, where the walk stopped
SameUpToStop(url, end, segs) ==
    /\ Len(Segments(url)) > Len(end)
    /\ SubSeq(Segments(url), 1, Len(end) + 1) = SubSeq(segs, 1, Len(end) + 1)

(* C15: a request whose walk stops at a segment with neither a literal nor *)
(* a wildcard child resolves to the default route and error handler        *)
(* inherited from the root down to the node it stopped at (that node       *)
(* included, its route slot not looked at) and to the values captured on   *)
(* the way, and so does every request that agrees with it up to and        *)
(* including the unmatched segment.                                        *)
C15_StopsAtUnmatched ==
    (ServedKnown /\ WalkStops(ServedTrie, last.url)) =>
        /\ last.rt = InheritedDefault(ServedTrie, ServedEnd, Len(ServedEnd))
        /\ last.erh = InheritedErrorHandler(ServedTrie, ServedEnd,
                                            Len(ServedEnd))
        /\ last.args = WalkArgs(ServedTrie, last.url)
        /\ LET end == ServedEnd
               segs == Segments(last.url)
           IN  \A url \in ReqUrls :
                   SameUpToStop(url, end, segs) =>
                       findRoute(children, last.method, Split(url))
                           = ServedResult

\* the walk stopped below a wildcard, at a node that has a route, and the
\* request resolved to a registered default
C15_Witness ==
    /\ ServedKnown
    /\ WalkStops(ServedTrie, last.url)
    /\ ServedEnd # <<>>
    /\ ServedTrie[ServedEnd].route # Nil
    /\ last.args # <<>>
    /\ last.rt \in Routes
    /\ last.rt = InheritedDefault(ServedTrie, ServedEnd, Len(ServedEnd))

---------------------------------------------------------------------------
\* how many nodes below the root the walk of the request just served
\* inherits at: the node it ends at as well when it stops there or the
\* request has a trailing slash
ServedInheritDepth ==
    IF WalkStops(ServedTrie, last.url) \/ TrailingSlash(last.url)
       \/ ServedEnd = <<>>
    THEN Len(ServedEnd)
    ELSE Len(ServedEnd) - 1

\* a route registered with wildcards that matches the whole request path,
\* at a node the walk did not end at
PassedOverRoute(node) ==
    /\ node \in DOMAIN ServedTrie
    /\ node # ServedEnd
    /\ HasStar(node)
    /\ ServedTrie[node].route # Nil
    /\ Instance(node, Segments(last.url))

(* C16: the route a request resolves to is decided by its one walk, which  *)
(* takes the literal child wherever there is one and never goes back to a  *)
(* wildcard sibling: it is the route of the node the walk ends at when the *)
(* walk uses up the path and that node has a route, and the inherited      *)
(* default otherwise, even when a wildcard route matches the whole path.   *)
C16_NoBacktracking ==
    ServedKnown =>
        last.rt = IF /\ ~WalkStops(ServedTrie, last.url)
                     /\ ServedTrie[ServedEnd].route # Nil
                  THEN ServedTrie[ServedEnd].route
                  ELSE InheritedDefault(ServedTrie, ServedEnd,
                                        ServedInheritDepth)

\* the walk took a literal child to a node without a route and the request
\* got the built-in default, though a wildcard route matches its path
C16_Witness ==
    /\ ServedKnown
    /\ ~WalkStops(ServedTrie, last.url)
    /\ ~HasStar(ServedEnd)
    /\ ServedTrie[ServedEnd].route = Nil
    /\ \E node \in DOMAIN ServedTrie :
           PassedOverRoute(node) /\ last.rt # ServedTrie[node].route
    /\ last.rt = nullRoute

---------------------------------------------------------------------------
\* url with one more slash after its first i characters
InsertSlash(url, i) ==
    SubSeq(url, 1, i) \o <<Slash>> \o SubSeq(url, i + 1, Len(url))

\* a slash put after the first i characters of url is a leading slash or
\* doubles a slash, and a non-empty segment comes after it
NonTrailingSlashAt(url, i) ==
    /\ i = 0 \/ url[i] = Slash
    /\ \E j \in (i + 1)..Len(url) : url[j] # Slash

(* C17: a request resolves to the same route, error handler and args when  *)
(* a leading slash is added to its path or a slash before its last         *)
(* non-empty segment is doubled; a slash added at the end leaves the args  *)
(* and a matched route as they are; no value in args is empty and there    *)
(* are no more of them than non-empty segments.                            *)
C17_EmptySegments ==
    Served =>
        /\ \A i \in 0..Len(last.url) :
               NonTrailingSlashAt(last.url, i) =>
                   findRoute(children, last.method,
                             Split(InsertSlash(last.url, i))) = ServedResult
        /\ LET res == findRoute(children, last.method,
                                Split(last.url \o <<Slash>>))
           IN  /\ res.args = last.args
               /\ (/\ ServedKnown
                   /\ ~WalkStops(ServedTrie, last.url)
                   /\ ServedTrie[ServedEnd].route # Nil) => res.rt = last.rt
        /\ \A i \in DOMAIN last.args : last.args[i] # <<>>
        /\ Len(last.args) <= Len(Segments(last.url))

\* a request with a slash between two segments resolved to a route with a
\* captured value, as it does with that slash doubled
C17_Witness ==
    /\ Served
    /\ last.rt \in Routes
    /\ last.args # <<>>
    /\ Len(Segments(last.url)) = 2
    /\ \E i \in 1..Len(last.url) :
           /\ last.url[i] = Slash
           /\ i > 1
           /\ NonTrailingSlashAt(last.url, i)
           /\ findRoute(children, last.method,
                        Split(InsertSlash(last.url, i))) = ServedResult

---------------------------------------------------------------------------
(* C18: a registration call that panics as a duplicate leaves the Router   *)
(* as it was: no method gets a trie, no node is created and every slot     *)
(* keeps its handler.                                                      *)
C18_FailedLeavesTrie ==
    [][(nregs' = nregs + 1 /\ last'.panic # Nil) => children' = children]_vars

\* the second registration of an error handler at a node has panicked
C18_Witness ==
    /\ nregs = 2
    /\ last.op = "SetErrorHandler"
    /\ last.panic = PanicErrorHandler
    /\ \E m \in DOMAIN children :
           \E node \in DOMAIN children[m] :
               node # <<>> /\ children[m][node].errorHandler \in ErrorHandlers

---------------------------------------------------------------------------
\* the registration calls, without their handler, in some order, and the
\* slot each of them binds
RECURSIVE SetToSeq(_)
SetToSeq(S) ==
    IF S = {} THEN <<>>
    ELSE LET x == CHOOSE y \in S : TRUE
         IN  <<x>> \o SetToSeq(S \ {x})

SlotSeq == SetToSeq(Slots)
MethodSeq == SetToSeq(Methods)
UrlSeq == SetToSeq(RegUrls)

CallSeq ==
    [n \in 1..(Len(SlotSeq) * Len(MethodSeq) * Len(UrlSeq)) |->
        [slot |-> SlotSeq[((n - 1) \div (Len(MethodSeq) * Len(UrlSeq))) + 1],
         method |-> MethodSeq[(((n - 1) \div Len(UrlSeq)) % Len(MethodSeq)) + 1],
         url |-> UrlSeq[((n - 1) % Len(UrlSeq)) + 1]]]

Target(c) == <<ToLower(c.method), Segments(c.url), c.slot>>

TargetSeq == [i \in DOMAIN CallSeq |-> Target(CallSeq[i])]

Unbound(r, c) == SlotsAt(r, c.method, c.url)[FieldOf(c.slot)] = Nil

\* the handler of the k-th of two registrations
NthHandler(slot, k) ==
    IF slot = "SetErrorHandler" THEN (IF k = 1 THEN "E1" ELSE "E2")
    ELSE (IF k = 1 THEN "R1" ELSE "R2")

BindCall(r, c, k) == Bind(r, c.slot, c.method, c.url, NthHandler(c.slot, k))

(* C19: while the set-up can go on, two registrations for different        *)
(* (method, node, slot) that are both unbound succeed in either order, and *)
(* the two orders give the same Router, hence the same result for every    *)
(* request.                                                                *)
C19_OrderIndependent ==
    Setup =>
        LET one == [i \in DOMAIN CallSeq |-> BindCall(children, CallSeq[i], 1)]
            two == [i \in DOMAIN CallSeq |-> BindCall(children, CallSeq[i], 2)]
            free == {i \in DOMAIN CallSeq : Unbound(children, CallSeq[i])}
        IN  \A i \in free :
                \A j \in {k \in free : k > i} :
                    TargetSeq[i] # TargetSeq[j] =>
                        LET a == BindCall(one[i].r, CallSeq[j], 2)
                            b == BindCall(two[j].r, CallSeq[i], 1)
                        IN  /\ one[i].panic = Nil
                            /\ two[j].panic = Nil
                            /\ a.panic = Nil
                            /\ b.panic = Nil
                            /\ a.r = b.r

\* after one registration, a route below a wildcard and a default at the
\* root of the same method are registered in either order with one outcome
C19_Witness ==
    /\ Setup
    /\ nregs = 1
    /\ last.panic = Nil
    /\ \E method \in Methods :
           LET c1 == [slot |-> "Handle", method |-> method,
                      url |-> <<"*", Slash, "a">>]
               c2 == [slot |-> "SetDefault", method |-> method,
                      url |-> <<Slash>>]
               a == BindCall(BindCall(children, c1, 1).r, c2, 2)
               b == BindCall(BindCall(children, c2, 2).r, c1, 1)
           IN  /\ ToLower(method) \in DOMAIN children
               /\ Unbound(children, c1) /\ Unbound(children, c2)
               /\ a.panic = Nil /\ b.panic = Nil
               /\ a.r = b.r
               /\ a.r # children
               /\ findRoute(a.r, method, Split(<<"b", Slash, "a">>)).rt = "R1"
               /\ findRoute(a.r, method, Split(<<"b">>)).rt = "R2"

---------------------------------------------------------------------------
\* findRoute without lines 181-189: the loop starts from the built-in
\* default route and error handler instead of those of the root
Unseeded ==
    [sr |-> <<>>, rt |-> nullRoute, erh |-> nullErrorHandler, args |-> <<>>,
     returned |-> FALSE]

findRouteNoSeed(r, method, pathParts) ==
    LET m == ToLower(method)
    IN  IF m \notin DOMAIN r
        THEN [rt |-> nullRoute, erh |-> nullErrorHandler, args |-> <<>>]
        ELSE LET st == Final(r[m], findRouteLoop(r[m], Unseeded, pathParts, 1))
             IN  [rt |-> st.rt, erh |-> st.erh, args |-> st.args]

====
